---- MODULE Spec2Model ----
(***************************************************************************)
(* NiconicoLiveFD.real_download (yt_dlp/downloader/niconico.py): the       *)
(* foreground thread that launches the FFmpeg delegate, and the daemon     *)
(* thread ws_main that keeps the control WebSocket alive by calling        *)
(* communicate_ws in an endless retry loop.                                *)
(* run_update (yt_dlp/update.py), frozen-executable branch: the download,  *)
(* verification and installation of a new executable (UpdSpec).            *)
(***************************************************************************)
EXTENDS Integers, Sequences, FiniteSets, TLC

\* ---------------------------------------------------------------- bounds
\* calls of communicate_ws the model follows (the loop itself is unbounded)
MaxAttempts == 3
\* ping frames answered on one session
MaxPings == 1

\* ------------------------------------------------------------- constants
\* the handle handed in by the extractor, info_dict['ws']
ws_extractor == 0
\* a Python None / a missing dict key
None == "<None>"
\* "no frame": nothing received on the current session yet, or recv() raised
NoFrame == "<no frame>"

Handles == 0 .. MaxAttempts

\* ----------------------------------------------------------- wire frames
\* the texts ws.recv() delivers in the model
EmptyFrame       == ""
GarbageFrame     == "<html>"
NullFrame        == "null"
ZeroFrame        == "0"
ListFrame        == "[1]"
StringFrame      == "\"ping\""
EmptyObjFrame    == "{}"
PingFrame        == "{\"type\":\"ping\"}"
DisconnectFrame  == "{\"type\":\"disconnect\"}"
ErrorCodeFrame   == "{\"type\":\"error\",\"body\":{\"code\":\"X\"}}"
ErrorNoCodeFrame == "{\"type\":\"error\"}"
ErrorIntCodeFrame == "{\"type\":\"error\",\"body\":{\"code\":7}}"
ErrorEmptyCodeFrame == "{\"type\":\"error\",\"body\":{\"code\":\"\"}}"
OtherTypeFrame   == "{\"type\":\"stat\"}"
NoTypeFrame      == "{\"x\":1}"

Frames ==
  { EmptyFrame, GarbageFrame, NullFrame, ZeroFrame, ListFrame, StringFrame,
    EmptyObjFrame, PingFrame, DisconnectFrame, ErrorCodeFrame,
    ErrorNoCodeFrame, ErrorIntCodeFrame, ErrorEmptyCodeFrame, OtherTypeFrame,
    NoTypeFrame }

\* a decoded value: valid = json.loads did not raise, isDict = isinstance(data,
\* dict), truthy = bool(data), type = data.get('type'), codeIsStr/code =
\* data["body"]["code"] and whether it is a str
Value(valid, isDict, truthy, type, codeIsStr, code) ==
  [valid |-> valid, isDict |-> isDict, truthy |-> truthy, type |-> type,
   codeIsStr |-> codeIsStr, code |-> code]

\* json.loads on the frames of the model
JsonLoads(recv) ==
  CASE recv = NullFrame      -> Value(TRUE, FALSE, FALSE, None, FALSE, None)
    [] recv = ZeroFrame      -> Value(TRUE, FALSE, FALSE, None, FALSE, None)
    [] recv = ListFrame      -> Value(TRUE, FALSE, TRUE, None, FALSE, None)
    [] recv = StringFrame    -> Value(TRUE, FALSE, TRUE, None, FALSE, None)
    [] recv = EmptyObjFrame  -> Value(TRUE, TRUE, FALSE, None, FALSE, None)
    [] recv = PingFrame      -> Value(TRUE, TRUE, TRUE, "ping", FALSE, None)
    [] recv = DisconnectFrame -> Value(TRUE, TRUE, TRUE, "disconnect", FALSE, None)
    [] recv = ErrorCodeFrame -> Value(TRUE, TRUE, TRUE, "error", TRUE, "X")
    [] recv = ErrorNoCodeFrame -> Value(TRUE, TRUE, TRUE, "error", FALSE, None)
    [] recv = ErrorIntCodeFrame -> Value(TRUE, TRUE, TRUE, "error", FALSE, "7")
    [] recv = ErrorEmptyCodeFrame -> Value(TRUE, TRUE, TRUE, "error", TRUE, "")
    [] recv = OtherTypeFrame -> Value(TRUE, TRUE, TRUE, "stat", FALSE, None)
    [] recv = NoTypeFrame    -> Value(TRUE, TRUE, TRUE, None, FALSE, None)
    [] OTHER                 -> Value(FALSE, FALSE, FALSE, None, FALSE, None)

\* outbound frames
StartWatching(quality, latency) ==
  [type |-> "startWatching", quality |-> quality, latency |-> latency]
Pong     == [type |-> "pong"]
KeepSeat == [type |-> "keepSeat"]

\* info_dict.get(key, 'high')
GetOrHigh(v) == IF v = None THEN "high" ELSE v

\* faulty variant: startWatching is sent on the adopted handle as well
StartFrames_Always(reconn, info) ==
  << StartWatching(GetOrHigh(info.live_quality),
                   GetOrHigh(info.live_latency)) >>

\* what communicate_ws sends before it enters the receive loop
StartFrames(reconn, info) ==
  IF reconn
    THEN << StartWatching(GetOrHigh(info.live_quality),
                          GetOrHigh(info.live_latency)) >>
    ELSE << >>

\* new_info_dict: a copy of info_dict with the protocol replaced
NewInfoDict(info) == [info EXCEPT !.protocol = "live_ffmpeg"]

\* faulty variant: no fallback to the received text
ErrorMessage_NoFallback(recv, data) == data.code

\* try_get(data, lambda x: x["body"]["code"], compat_str) or recv
ErrorMessage(recv, data) ==
  IF data.codeIsStr /\ data.code # "" THEN data.code ELSE recv

\* faulty variant: data['type'] instead of data.get('type'), so an object
\* without a type raises KeyError
Dispatch_KeyError(recv) ==
  IF recv = EmptyFrame THEN "continue"
  ELSE LET data == JsonLoads(recv) IN
    IF ~data.valid THEN "raise"
    ELSE IF ~data.truthy \/ ~data.isDict THEN "continue"
    ELSE IF data.type = None THEN "raise"
    ELSE IF data.type = "ping" THEN "ping"
    ELSE IF data.type = "disconnect" THEN "disconnect"
    ELSE IF data.type = "error" THEN "error"
    ELSE "continue"

\* what one pass of the receive loop does with the text recv
Dispatch(recv) ==
  IF recv = EmptyFrame THEN "continue"
  ELSE LET data == JsonLoads(recv) IN
    IF ~data.valid THEN "raise"
    ELSE IF ~data.truthy \/ ~data.isDict THEN "continue"
    ELSE IF data.type = "ping" THEN "ping"
    ELSE IF data.type = "disconnect" THEN "disconnect"
    ELSE IF data.type = "error" THEN "error"
    ELSE "continue"

\* `ws` before communicate_ws has bound it
NoHandle == -1

VARIABLES
  wsAvailable,   \* the WebSocket dependency was importable
  info_dict,     \* the caller's info_dict
  new_info_dict, \* the copy handed to the delegate
  mainPc,        \* position of real_download
  result,        \* what real_download returned or raised
  dlCalls,       \* invocations of dl.download
  dlArg,         \* the info dict dl.download was called with
  dlState,       \* the media transfer
  dlOutcome,     \* how dl.download ended
  wsPc,          \* position of the thread running ws_main
  reconnect,     \* ws_main's local
  attempts,      \* calls of communicate_ws so far
  opened,        \* WebSocket(...) constructions that succeeded
  ws,            \* communicate_ws's local: the handle in use
  handle,        \* state of every handle
  sent,          \* per handle, the frames ws.send was called with
  lastRecv,      \* last text received on the current session
  sentSinceRecv, \* frames sent since that receive
  ret,           \* how the last communicate_ws call ended, None while it runs
  message,       \* the message of the DownloadError that call returned
  slept,         \* a time.sleep(10) completed since the last call ended
  \* run_update
  updPc,         \* position of run_update
  fs,            \* content of exe, exe + '.old' and exe + '.new'
  published,     \* the digest SHA2-256SUMS lists for the executable, or None
  newcontent,    \* run_update's local: the downloaded bytes
  expected_sum,  \* run_update's local
  renames,       \* os.rename calls of lines 190 and 194 that succeeded
  errors,        \* the messages passed to report_error
  updResult      \* what run_update returned, or that it raised

updVars == << updPc, fs, published, newcontent, expected_sum, renames, errors,
              updResult >>

vars == << wsAvailable, info_dict, new_info_dict, mainPc, result, dlCalls,
           dlArg, dlState, dlOutcome, wsPc, reconnect, attempts, opened, ws, handle,
           sent, lastRecv, sentSinceRecv, ret, message, slept, updPc, fs,
           published, newcontent, expected_sum, renames, errors, updResult >>

mainVars == << wsAvailable, info_dict, new_info_dict, mainPc, result,
               dlCalls, dlArg, dlState, dlOutcome >>
wsVars == << wsPc, reconnect, attempts, opened, ws, handle, sent, lastRecv,
             sentSinceRecv, ret, message, slept >>

\* faulty variant: a disconnect is retried like everything else
AfterReturn_AlwaysLoop(r) == "loop"

\* where ws_main goes when communicate_ws returns r
AfterReturn(r) == IF r = "True" THEN "stopped" ELSE "loop"

\* faulty variant: the thread ends on the first exception
AfterRaise_GiveUp == "stopped"

\* where ws_main goes when communicate_ws raises
AfterRaise == "sleep"

\* faulty variant: no finally clause, reconnect keeps its value
FinallyReconnect_Stale == reconnect

\* the value the finally clause leaves in reconnect
FinallyReconnect == TRUE

Protocols == {"niconico_live"}
Tiers == {None, "low"}

\* a file that does not exist
Absent == "<absent>"

\* the executable before the update, a leftover exe + '.old', and what a
\* write that failed half-way leaves behind
Original == "original"
Stale == "stale"
Partial == "partial"

\* what the release's download URL may deliver
Downloads == {"release", "damaged"}

\* hashlib.sha256(...).hexdigest() of a file with that content
Sha256(content) ==
  CASE content = "release" -> "sha256-of-release"
    [] content = "damaged" -> "sha256-of-damaged"
    [] content = Original  -> "sha256-of-original"
    [] OTHER               -> "sha256-of-other"

\* run_update has not been called
UpdIdle ==
  /\ updPc = "idle"
  /\ fs = [exe |-> Original, old |-> Absent, new |-> Absent]
  /\ published = None
  /\ newcontent = None
  /\ expected_sum = None
  /\ renames = 0
  /\ errors = << >>
  /\ updResult = "running"

NicoInit ==
  /\ wsAvailable \in BOOLEAN
  /\ info_dict \in [protocol : Protocols, live_quality : Tiers,
                    live_latency : {None}]
  /\ new_info_dict = None
  /\ mainPc = "entry"
  /\ result = None
  /\ dlCalls = 0
  /\ dlArg = None
  /\ dlState = "not-started"
  /\ dlOutcome = None
  /\ wsPc = "idle"
  /\ reconnect = FALSE
  /\ attempts = 0
  /\ opened = 0
  /\ ws = NoHandle
  /\ handle = [h \in Handles |-> IF h = ws_extractor THEN "open" ELSE "unopened"]
  /\ sent = [h \in Handles |-> << >>]
  /\ lastRecv = NoFrame
  /\ sentSinceRecv = << >>
  /\ ret = None
  /\ message = None
  /\ slept = FALSE

Init == NicoInit /\ UpdIdle

\* ------------------------------------------------------------ main thread
\* faulty variant: the capability check is missing
Setup_NoCheck ==
  /\ mainPc = "entry"
  /\ mainPc' = "thread"
  /\ new_info_dict' = NewInfoDict(info_dict)
  /\ UNCHANGED << wsAvailable, info_dict, result, dlCalls, dlArg, dlState,
                  dlOutcome >>
  /\ UNCHANGED wsVars
  /\ UNCHANGED updVars

\* faulty variant: no copy, the caller's info_dict is updated in place
Setup_InPlace ==
  /\ mainPc = "entry"
  /\ IF ~wsAvailable
       THEN /\ mainPc' = "raised"
            /\ result' = "DownloadError"
            /\ UNCHANGED << info_dict, new_info_dict >>
       ELSE /\ mainPc' = "thread"
            /\ info_dict' = NewInfoDict(info_dict)
            /\ new_info_dict' = info_dict'
            /\ UNCHANGED result
  /\ UNCHANGED << wsAvailable, dlCalls, dlArg, dlState, dlOutcome >>
  /\ UNCHANGED wsVars
  /\ UNCHANGED updVars

\* lines 21-36: the capability check and the copy of info_dict
Setup ==
  /\ mainPc = "entry"
  /\ IF ~wsAvailable
       THEN /\ mainPc' = "raised"
            /\ result' = "DownloadError"
            /\ UNCHANGED new_info_dict
       ELSE /\ mainPc' = "thread"
            /\ new_info_dict' = NewInfoDict(info_dict)
            /\ UNCHANGED result
  /\ UNCHANGED << wsAvailable, info_dict, dlCalls, dlArg, dlState,
                  dlOutcome >>
  /\ UNCHANGED wsVars
  /\ UNCHANGED updVars

\* lines 104-105: the daemon thread starts at the top of ws_main
ThreadStart ==
  /\ mainPc = "thread"
  /\ mainPc' = "call"
  /\ wsPc' = "loop"
  /\ reconnect' = FALSE
  /\ UNCHANGED << wsAvailable, info_dict, new_info_dict, result, dlCalls,
                  dlArg, dlState, dlOutcome >>
  /\ UNCHANGED << attempts, opened, ws, handle, sent, lastRecv,
                  sentSinceRecv, ret, message, slept >>
  /\ UNCHANGED updVars

\* faulty variant: the delegate is launched again after a control-channel failure
DlDownload_Restart ==
  /\ mainPc = "call" \/ (mainPc = "in_dl" /\ ret = "raised" /\ dlCalls < 2)
  /\ mainPc' = "in_dl"
  /\ dlCalls' = dlCalls + 1
  /\ dlArg' = new_info_dict
  /\ dlState' = "running"
  /\ UNCHANGED << wsAvailable, info_dict, new_info_dict, result,
                  dlOutcome >>
  /\ UNCHANGED wsVars
  /\ UNCHANGED updVars

\* line 107: dl.download(filename, new_info_dict) is entered
DlDownload ==
  /\ mainPc = "call"
  /\ mainPc' = "in_dl"
  /\ dlCalls' = dlCalls + 1
  /\ dlArg' = new_info_dict
  /\ dlState' = "running"
  /\ UNCHANGED << wsAvailable, info_dict, new_info_dict, result,
                  dlOutcome >>
  /\ UNCHANGED wsVars
  /\ UNCHANGED updVars

DelegateOutcomes == {"True", "False", "raised"}

\* faulty variant: a control-channel failure is surfaced as the result
ReturnOf_ControlChannel(out) == IF ret = "raised" THEN "DownloadError" ELSE out

\* line 107: real_download hands on what dl.download returned or raised
ReturnOf(out) == out

\* faulty variant: the thread is joined before real_download returns
DlReturn_Join ==
  /\ mainPc = "in_dl"
  /\ wsPc = "stopped"
  /\ \E out \in DelegateOutcomes :
       /\ dlState' = "finished"
       /\ dlOutcome' = out
       /\ result' = ReturnOf(out)
       /\ mainPc' = (IF out = "raised" THEN "raised" ELSE "returned")
  /\ UNCHANGED << wsAvailable, info_dict, new_info_dict, dlCalls, dlArg >>
  /\ UNCHANGED wsVars
  /\ UNCHANGED updVars

\* line 107: dl.download ends and real_download returns (or raises) with it
DlReturn ==
  /\ mainPc = "in_dl"
  /\ \E out \in DelegateOutcomes :
       /\ dlState' = "finished"
       /\ dlOutcome' = out
       /\ result' = ReturnOf(out)
       /\ mainPc' = (IF out = "raised" THEN "raised" ELSE "returned")
  /\ UNCHANGED << wsAvailable, info_dict, new_info_dict, dlCalls, dlArg >>
  /\ UNCHANGED wsVars
  /\ UNCHANGED updVars

\* ------------------------------------------------------- ws_main thread
\* faulty variant: no `with`, nothing closes the handle
ExitWith_Leak(h) == handle

\* leaving the `with ws:` block closes the handle
ExitWith(h) == [handle EXCEPT ![h] = "closed"]

\* pings answered so far on handle h
Pongs(h) == Len(SelectSeq(sent[h], LAMBDA f : f.type = "pong"))

\* communicate_ws raised: the except clause of ws_main takes over
Raised ==
  /\ ret' = "raised"
  /\ message' = None
  /\ wsPc' = AfterRaise
  /\ slept' = FALSE
  /\ UNCHANGED reconnect

\* lines 94, 38-66: ws_main calls communicate_ws(reconnect), which opens a
\* new WebSocket and sends startWatching, or takes the extractor's handle
CommunicateWs ==
  /\ wsPc = "loop"
  /\ attempts < MaxAttempts
  /\ attempts' = attempts + 1
  /\ lastRecv' = NoFrame
  /\ sentSinceRecv' = << >>
  /\ IF reconnect
       THEN \/ \* WebSocket(...) raises
               /\ ws' = NoHandle
               /\ Raised
               /\ UNCHANGED << opened, handle, sent >>
            \/ \* WebSocket(...) returns a fresh handle; ws.send(startWatching)
               LET h == opened + 1 IN
                  /\ opened' = h
                  /\ ws' = h
                  /\ sent' = [sent EXCEPT
                               ![h] = @ \o StartFrames(reconnect, info_dict)]
                  /\ \/ \* the send succeeds and `with ws:` is entered
                        /\ handle' = [handle EXCEPT ![h] = "open"]
                        /\ wsPc' = "recv"
                        /\ ret' = None
                        /\ message' = None
                        /\ UNCHANGED << reconnect, slept >>
                     \/ \* the send raises before `with ws:` is entered: no
                        \* close is called; the handle stays open unless
                        \* the runtime finalises the dropped object
                        /\ \E st \in {"open", "closed"} :
                             handle' = [handle EXCEPT ![h] = st]
                        /\ Raised
       ELSE /\ ws' = ws_extractor
            /\ sent' = [sent EXCEPT ![ws_extractor] =
                                     @ \o StartFrames(reconnect, info_dict)]
            /\ wsPc' = "recv"
            /\ ret' = None
            /\ message' = None
            /\ UNCHANGED << opened, handle, reconnect, slept >>
  /\ UNCHANGED mainVars
  /\ UNCHANGED updVars

\* lines 68-88: one ws.recv() and what the loop does with the text
Recv ==
  /\ wsPc = "recv"
  /\ sentSinceRecv' = << >>
  /\ \/ \* ws.recv() raises
        /\ lastRecv' = NoFrame
        /\ handle' = ExitWith(ws)
        /\ Raised
     \/ \E recv \in Frames :
          LET d == Dispatch(recv) IN
          /\ lastRecv' = recv
          /\ CASE d = "continue" ->
                    UNCHANGED << wsPc, handle, reconnect, ret, message, slept >>
               [] d = "raise" ->
                    /\ handle' = ExitWith(ws)
                    /\ Raised
               [] d = "ping" ->
                    /\ Pongs(ws) < MaxPings
                    /\ wsPc' = "pong"
                    /\ UNCHANGED << handle, reconnect, ret, message, slept >>
               [] d = "disconnect" ->
                    /\ handle' = ExitWith(ws)
                    /\ ret' = "True"
                    /\ reconnect' = FinallyReconnect
                    /\ wsPc' = AfterReturn("True")
                    /\ slept' = FALSE
                    /\ UNCHANGED message
               [] d = "error" ->
                    /\ handle' = ExitWith(ws)
                    /\ ret' = "DownloadError"
                    /\ message' = ErrorMessage(recv, JsonLoads(recv))
                    /\ reconnect' = FinallyReconnect
                    /\ wsPc' = AfterReturn("DownloadError")
                    /\ slept' = FALSE
  /\ UNCHANGED << attempts, opened, ws, sent >>
  /\ UNCHANGED mainVars
  /\ UNCHANGED updVars

\* faulty variant: a failed reply is swallowed and the loop carries on with
\* the next receive on the same session
Send_Swallow(pc, frame, next) ==
  /\ wsPc = pc
  /\ sent' = [sent EXCEPT ![ws] = Append(@, frame)]
  /\ sentSinceRecv' = Append(sentSinceRecv, frame)
  /\ \/ wsPc' = next
     \/ wsPc' = "recv"
  /\ UNCHANGED << handle, reconnect, ret, message, slept >>
  /\ UNCHANGED << attempts, opened, ws, lastRecv >>
  /\ UNCHANGED mainVars
  /\ UNCHANGED updVars

\* ws.send(frame) at position pc, going on to position next
Send(pc, frame, next) ==
  /\ wsPc = pc
  /\ sent' = [sent EXCEPT ![ws] = Append(@, frame)]
  /\ sentSinceRecv' = Append(sentSinceRecv, frame)
  /\ \/ /\ wsPc' = next
        /\ UNCHANGED << handle, reconnect, ret, message, slept >>
     \/ \* the send raises
        /\ handle' = ExitWith(ws)
        /\ Raised
  /\ UNCHANGED << attempts, opened, ws, lastRecv >>
  /\ UNCHANGED mainVars
  /\ UNCHANGED updVars

\* faulty variant: keepSeat is left out
SendPong_Only == Send("pong", Pong, "recv")

\* line 76
SendPong == Send("pong", Pong, "keepSeat")

\* line 77
SendKeepSeat == Send("keepSeat", KeepSeat, "recv")

\* faulty variant: a connection error aborts the media transfer
SleepDone_Abort ==
  /\ wsPc = "sleep"
  /\ slept' = TRUE
  /\ reconnect' = FinallyReconnect
  /\ wsPc' = "loop"
  /\ dlState' = (IF dlState = "running" THEN "finished" ELSE dlState)
  /\ UNCHANGED << attempts, opened, ws, handle, sent, lastRecv,
                  sentSinceRecv, ret, message >>
  /\ UNCHANGED << wsAvailable, info_dict, new_info_dict, mainPc, result,
                  dlCalls, dlArg, dlOutcome >>
  /\ UNCHANGED updVars

\* lines 97-102: time.sleep(10) ends, `continue`, the finally clause
SleepDone ==
  /\ wsPc = "sleep"
  /\ slept' = TRUE
  /\ reconnect' = FinallyReconnect
  /\ wsPc' = "loop"
  /\ UNCHANGED << attempts, opened, ws, handle, sent, lastRecv,
                  sentSinceRecv, ret, message >>
  /\ UNCHANGED mainVars
  /\ UNCHANGED updVars

Next ==
  \/ Setup
  \/ ThreadStart
  \/ DlDownload
  \/ DlReturn
  \/ CommunicateWs
  \/ Recv
  \/ SendPong
  \/ SendKeepSeat
  \/ SleepDone

Spec == Init /\ [][Next]_vars

\* the thread is scheduled, sleep() returns and open/send return or raise;
\* recv() may block for ever
FairSpec ==
  /\ Spec
  /\ WF_vars(CommunicateWs)
  /\ WF_vars(SendPong)
  /\ WF_vars(SendKeepSeat)
  /\ WF_vars(SleepDone)

TypeOK ==
  /\ wsPc \in {"idle", "loop", "recv", "pong", "keepSeat", "sleep", "stopped"}
  /\ mainPc \in {"entry", "thread", "call", "in_dl", "returned", "raised"}
  /\ ws \in Handles \cup {NoHandle}
  /\ handle \in [Handles -> {"unopened", "open", "closed"}]
  /\ reconnect \in BOOLEAN
  /\ slept \in BOOLEAN
  /\ ret \in {None, "True", "DownloadError", "raised"}
  /\ result \in {None, "DownloadError"} \cup DelegateOutcomes
  /\ dlState \in {"not-started", "running", "finished"}
  /\ lastRecv \in Frames \cup {NoFrame}
  /\ attempts \in 0 .. MaxAttempts
  /\ opened \in 0 .. MaxAttempts

\* ------------------------------------------------------------ run_update
nicoVars == << mainVars, wsVars >>

\* run_update is entered on a frozen executable; a leftover exe + '.old' may
\* exist, and the release may or may not list a digest for the executable
UpdInit ==
  /\ NicoInit
  /\ wsAvailable
  /\ info_dict.live_quality = None
  /\ updPc = "start"
  /\ fs \in [exe : {Original}, old : {Absent, Stale}, new : {Absent}]
  /\ published \in {None, Sha256("release"), Sha256("damaged")}
  /\ newcontent = None
  /\ expected_sum = None
  /\ renames = 0
  /\ errors = << >>
  /\ updResult = "running"

\* `return report_error(msg)` and a plain `return`: run_update returns None
ReturnNone(msgs) ==
  /\ updPc' = "done"
  /\ updResult' = "None"
  /\ errors' = errors \o msgs

\* an exception leaves run_update
Propagate ==
  /\ updPc' = "done"
  /\ updResult' = "raised"
  /\ UNCHANGED errors

\* lines 91-149: platform check, version info, version comparison and the
\* write permission on the executable
Precheck ==
  /\ updPc = "start"
  /\ \/ ReturnNone(<< "unsupported platform" >>)
     \/ ReturnNone(<< "can't obtain versions info" >>)
     \/ ReturnNone(<< >>)
     \/ ReturnNone(<< "no write permissions on exe" >>)
     \/ updPc' = "check_dir" /\ UNCHANGED << updResult, errors >>
  /\ UNCHANGED << fs, published, newcontent, expected_sum, renames >>
  /\ UNCHANGED nicoVars

\* lines 153-156
CheckDir ==
  /\ updPc = "check_dir"
  /\ \/ ReturnNone(<< "no write permissions on directory" >>)
     \/ updPc' = "remove_old" /\ UNCHANGED << updResult, errors >>
  /\ UNCHANGED << fs, published, newcontent, expected_sum, renames >>
  /\ UNCHANGED nicoVars

\* lines 157-161
RemoveOld ==
  /\ updPc = "remove_old"
  /\ IF fs.old # Absent
       THEN \/ /\ fs' = [fs EXCEPT !.old = Absent]
               /\ updPc' = "download"
               /\ UNCHANGED << updResult, errors >>
            \/ /\ ReturnNone(<< "unable to remove the old version" >>)
               /\ UNCHANGED fs
       ELSE /\ updPc' = "download"
            /\ UNCHANGED << fs, updResult, errors >>
  /\ UNCHANGED << published, newcontent, expected_sum, renames >>
  /\ UNCHANGED nicoVars

\* lines 163-171
Download ==
  /\ updPc = "download"
  /\ \/ /\ ReturnNone(<< "unable to fetch updates" >>)
        /\ UNCHANGED newcontent
     \/ /\ ReturnNone(<< "unable to download latest version" >>)
        /\ UNCHANGED newcontent
     \/ /\ \E content \in Downloads : newcontent' = content
        /\ updPc' = "write_new"
        /\ UNCHANGED << updResult, errors >>
  /\ UNCHANGED << fs, published, expected_sum, renames >>
  /\ UNCHANGED nicoVars

\* lines 173-177
WriteNew ==
  /\ updPc = "write_new"
  /\ \/ /\ fs' = [fs EXCEPT !.new = newcontent]
        /\ updPc' = "get_sum"
        /\ UNCHANGED << updResult, errors >>
     \/ /\ \E left \in {Absent, Partial} : fs' = [fs EXCEPT !.new = left]
        /\ ReturnNone(<< "unable to write the new version" >>)
  /\ UNCHANGED << published, newcontent, expected_sum, renames >>
  /\ UNCHANGED nicoVars

\* lines 179, 137-146: get_sha256sum; fetching SHA2-256SUMS is not guarded
GetSum ==
  /\ updPc = "get_sum"
  /\ \/ /\ expected_sum' = published
        /\ updPc' = "verify"
        /\ UNCHANGED << updResult, errors >>
     \/ /\ Propagate
        /\ UNCHANGED expected_sum
  /\ UNCHANGED << fs, published, newcontent, renames >>
  /\ UNCHANGED nicoVars

\* where run_update goes on after it removed a download that failed the
\* verification: line 185 is followed by line 189
AfterCorruptRemoved == "rename_old"

\* lines 180-187
Verify ==
  /\ updPc = "verify"
  /\ IF expected_sum = None
       THEN /\ updPc' = "rename_old"
            /\ UNCHANGED << fs, updResult, errors >>
       ELSE IF Sha256(fs.new) # expected_sum
         THEN \/ /\ fs' = [fs EXCEPT !.new = Absent]
                 /\ updPc' = AfterCorruptRemoved
                 /\ errors' = Append(errors, "unable to verify the new executable")
                 /\ UNCHANGED updResult
              \/ /\ ReturnNone(<< "unable to verify the new executable",
                                   "unable to remove corrupt download" >>)
                 /\ UNCHANGED fs
         ELSE /\ updPc' = "rename_old"
              /\ UNCHANGED << fs, updResult, errors >>
  /\ UNCHANGED << published, newcontent, expected_sum, renames >>
  /\ UNCHANGED nicoVars

\* lines 189-192
RenameOld ==
  /\ updPc = "rename_old"
  /\ \/ /\ fs' = [fs EXCEPT !.old = fs.exe, !.exe = Absent]
        /\ renames' = renames + 1
        /\ updPc' = "rename_new"
        /\ UNCHANGED << updResult, errors >>
     \/ /\ ReturnNone(<< "unable to move current version" >>)
        /\ UNCHANGED << fs, renames >>
  /\ UNCHANGED << published, newcontent, expected_sum >>
  /\ UNCHANGED nicoVars

\* lines 193-196; a missing exe + '.new' makes os.rename raise
RenameNew ==
  /\ updPc = "rename_new"
  /\ \/ /\ fs.new # Absent
        /\ fs' = [fs EXCEPT !.exe = fs.new, !.new = Absent]
        /\ renames' = renames + 1
        /\ updPc' = "popen"
        /\ UNCHANGED << updResult, errors >>
     \/ /\ errors' = Append(errors, "unable to overwrite current version")
        /\ updPc' = "rollback"
        /\ UNCHANGED << fs, renames, updResult >>
  /\ UNCHANGED << published, newcontent, expected_sum >>
  /\ UNCHANGED nicoVars

\* faulty variant: the old executable is not moved back
Rollback_Missing ==
  /\ updPc = "rollback"
  /\ ReturnNone(<< >>)
  /\ UNCHANGED << fs, published, newcontent, expected_sum, renames >>
  /\ UNCHANGED nicoVars

\* lines 197-198: os.rename(exe + '.old', exe), not guarded, then return
Rollback ==
  /\ updPc = "rollback"
  /\ \/ /\ fs' = [fs EXCEPT !.exe = fs.old, !.old = Absent]
        /\ ReturnNone(<< >>)
     \/ /\ Propagate
        /\ UNCHANGED fs
  /\ UNCHANGED << published, newcontent, expected_sum, renames >>
  /\ UNCHANGED nicoVars

\* lines 199-207 and 232
Popen ==
  /\ updPc = "popen"
  /\ \/ /\ updPc' = "done"
        /\ updResult' = "True"
        /\ UNCHANGED errors
     \/ ReturnNone(<< "unable to delete old version" >>)
  /\ UNCHANGED << fs, published, newcontent, expected_sum, renames >>
  /\ UNCHANGED nicoVars

UpdNext ==
  \/ Precheck
  \/ CheckDir
  \/ RemoveOld
  \/ Download
  \/ WriteNew
  \/ GetSum
  \/ Verify
  \/ RenameOld
  \/ RenameNew
  \/ Rollback
  \/ Popen

UpdSpec == UpdInit /\ [][UpdNext]_vars

\* ------------------------------------------------------------- claims
InSession == wsPc \in {"recv", "pong", "keepSeat"}
OpenHandles == {h \in Handles : handle[h] = "open"}
StartCount(h) == Len(SelectSeq(sent[h], LAMBDA f : f.type = "startWatching"))
\* recv is not parseable as JSON, or parses to something that is no object
MalformedOrNonObject(recv) ==
  recv \in Frames /\ (~JsonLoads(recv).valid \/ ~JsonLoads(recv).isDict)

\* C1: dl.download is invoked exactly once in a run that gets past the
\* setup, however the control channel fares, and no step of the ws_main
\* thread invokes it again.
C1_DelegateOnce ==
  /\ dlCalls <= 1
  /\ (mainPc \in {"in_dl", "returned"} => dlCalls = 1)
  /\ (mainPc = "raised" /\ wsAvailable => dlCalls = 1)
  /\ (dlState = "not-started" <=> dlCalls = 0)
C1_Witness ==
  /\ dlCalls = 1
  /\ attempts = MaxAttempts
  /\ opened >= 1
  /\ ret = "raised"
  /\ mainPc = "in_dl"

\* C2: communicate_ws is never called again without a completed
\* time.sleep(10) since the previous call ended.
C2_BackoffBeforeOpen ==
  [][(attempts' = attempts + 1 /\ attempts >= 1) => slept]_vars

\* C3: a received text that is not JSON, or is JSON but no object, leaves the
\* thread in the receive loop of the same open session, with nothing sent and
\* nothing raised.
C3_MalformedIgnored ==
  MalformedOrNonObject(lastRecv) =>
    /\ wsPc = "recv"
    /\ handle[ws] = "open"
    /\ sentSinceRecv = << >>
    /\ ret = None

\* C4: at most one control-channel handle is open at any time.
C4_AtMostOneOpen == Cardinality(OpenHandles) <= 1

\* C5: a disconnect frame ends the session with communicate_ws returning
\* True and ws_main returning; after that no session is opened and no frame
\* is sent.
C5_DisconnectStops ==
  /\ [](lastRecv = DisconnectFrame =>
          wsPc = "stopped" /\ ret = "True" /\ handle[ws] = "closed")
  /\ [][wsPc = "stopped" =>
          wsPc' = "stopped" /\ UNCHANGED << attempts, opened, sent, handle >>]_vars
C5_Witness ==
  /\ wsPc = "stopped"
  /\ lastRecv = DisconnectFrame
  /\ ws = 1
  /\ attempts < MaxAttempts

\* C6: every freshly opened handle has exactly one startWatching in its send
\* log, as the first entry (so before any receive); the extractor's handle
\* has none.
C6_StartWatchingOnce ==
  /\ StartCount(ws_extractor) = 0
  /\ \A h \in Handles \ {ws_extractor} :
       handle[h] # "unopened" =>
         /\ StartCount(h) = 1
         /\ sent[h][1].type = "startWatching"
  /\ (InSession /\ ws # ws_extractor => StartCount(ws) = 1)
C6_Witness ==
  /\ wsPc = "recv"
  /\ ws = 2
  /\ lastRecv = PingFrame
  /\ StartCount(2) = 1
  /\ handle[ws_extractor] = "closed"

\* C7: only the first call of communicate_ws runs on the extractor's handle;
\* every later call has reconnect = True and runs on a handle of its own.
C7_OnlyFirstReuses ==
  /\ (wsPc = "loop" /\ attempts >= 1 => reconnect)
  /\ (attempts >= 2 => ws # ws_extractor)
  /\ (InSession /\ ws = ws_extractor =>
        attempts = 1 /\ handle[ws_extractor] = "open")
  /\ (InSession /\ ws # ws_extractor => ws = opened /\ handle[ws] = "open")
C7_Witness ==
  /\ attempts = 3
  /\ wsPc = "recv"
  /\ ws = 1
  /\ handle[ws_extractor] = "closed"

\* C8: between a ping and the next receive exactly pong and then keepSeat
\* are sent, nothing else.
C8_PingReplies ==
  /\ (wsPc = "pong" => lastRecv = PingFrame /\ sentSinceRecv = << >>)
  /\ (wsPc = "keepSeat" => lastRecv = PingFrame /\ sentSinceRecv = << Pong >>)
  /\ (wsPc = "recv" /\ lastRecv = PingFrame =>
        sentSinceRecv = << Pong, KeepSeat >>)
C8_Witness ==
  /\ wsPc = "recv"
  /\ lastRecv = PingFrame
  /\ Len(sentSinceRecv) = 2

\* C9: after a call of communicate_ws has ended in any way but a disconnect,
\* the next call follows; the thread ends only on a disconnect frame.
C9_NeverGivesUp ==
  /\ \A n \in 1 .. (MaxAttempts - 1) :
       (attempts = n /\ wsPc \in {"sleep", "loop"}) ~> (attempts = n + 1)
  /\ [](wsPc = "stopped" => lastRecv = DisconnectFrame /\ ret = "True")
C9_Witness ==
  /\ attempts = MaxAttempts
  /\ slept
  /\ InSession
  /\ opened = MaxAttempts - 1

\* C10: what real_download returns or raises after the setup is what
\* dl.download returned or raised, whatever the ws_main thread did.
C10_ResultIsDelegates ==
  /\ (mainPc \in {"returned", "raised"} /\ dlCalls = 1 => result = dlOutcome)
  /\ (mainPc \in {"entry", "thread", "call", "in_dl"} => result = None)
C10_Witness ==
  /\ mainPc = "returned"
  /\ result = "True"
  /\ ret = "raised"
  /\ wsPc = "sleep"

\* C11: dl.download can end, and real_download return with it, in every
\* state of the ws_main thread (nothing joins or waits for the thread), and
\* the foreground thread's next step never waits for the ws_main thread.
C11_ReturnNeverBlocked ==
  /\ (mainPc = "in_dl" => ENABLED DlReturn)
  /\ (mainPc = "call" => ENABLED DlDownload)
  /\ (dlState = "finished" => mainPc \in {"returned", "raised"})
C11_Witness ==
  /\ mainPc = "returned"
  /\ wsPc = "recv"
  /\ attempts = MaxAttempts
  /\ slept

\* C12: no step of the ws_main thread changes the media transfer's state,
\* the count of delegate invocations or the delegate's outcome.
C12_SupervisorLeavesDownload ==
  [][(wsPc # "idle" /\ wsVars' # wsVars) =>
       UNCHANGED << dlState, dlCalls, dlOutcome, dlArg, mainPc, result >>]_vars
C12_Witness ==
  /\ dlState = "running"
  /\ wsPc = "stopped"
  /\ attempts >= 2

\* C13 (as amended): an error frame ends the call with a returned
\* DownloadError whose message is body.code when that is a non-empty string,
\* and the received text itself when the code is missing, empty or no string.
C13_ErrorDetail ==
  /\ (JsonLoads(lastRecv).type = "error" =>
        ret = "DownloadError" /\ handle[ws] = "closed")
  /\ (lastRecv = ErrorCodeFrame => message = "X")
  /\ (lastRecv \in {ErrorNoCodeFrame, ErrorIntCodeFrame, ErrorEmptyCodeFrame}
        => message = lastRecv)
C13_Witness ==
  /\ lastRecv = ErrorEmptyCodeFrame
  /\ message = ErrorEmptyCodeFrame
  /\ ret = "DownloadError"

\* C13 (as stated): an error frame whose body.code is a string ends the call
\* with that string as the message; one without a code with the received
\* text as the message.
C13_ErrorDetail_AsStated ==
  LET data == JsonLoads(lastRecv) IN
  data.type = "error" =>
    /\ ret = "DownloadError"
    /\ (data.codeIsStr => message = data.code)
    /\ (data.code = None => message = lastRecv)

\* C14: without the WebSocket dependency real_download raises DownloadError
\* at once: no thread, no session, no frame, no delegate, no retry.
C14_FatalSetup ==
  ~wsAvailable =>
    /\ mainPc \in {"entry", "raised"}
    /\ (mainPc = "raised" => result = "DownloadError")
    /\ wsPc = "idle"
    /\ attempts = 0
    /\ opened = 0
    /\ ws = NoHandle
    /\ \A h \in Handles : sent[h] = << >>
    /\ OpenHandles = {ws_extractor}
    /\ lastRecv = NoFrame
    /\ dlCalls = 0
    /\ dlState = "not-started"
    /\ ~slept
C14_Witness ==
  /\ ~wsAvailable
  /\ mainPc = "raised"
  /\ result = "DownloadError"

\* C15: every step that takes the thread out of the receive loop closes the
\* handle the loop ran on, in that same step.
C15_ReleasedOnExit ==
  [][(InSession /\ ~InSession') => (ws' = ws /\ handle'[ws] = "closed")]_vars
C15_Witness ==
  /\ wsPc = "sleep"
  /\ lastRecv = PingFrame
  /\ sentSinceRecv = << Pong >>
  /\ handle[ws] = "closed"

\* C16: a failed pong or keepSeat send ends the call with an exception: the
\* handle is closed, after a failed pong no keepSeat is sent, the thread
\* sleeps and then calls communicate_ws with reconnect = True, and the
\* caller's result stays the delegate's.
C16_ReplyFailureRetried ==
  /\ (wsPc \in {"pong", "keepSeat"} => lastRecv = PingFrame /\ ret = None)
  /\ (lastRecv = PingFrame /\ wsPc \notin {"pong", "keepSeat"} =>
        \/ wsPc = "recv" /\ ret = None /\ Len(sentSinceRecv) = 2
        \/ /\ ret = "raised"
           /\ wsPc \in {"sleep", "loop"}
           /\ (wsPc = "loop" => reconnect /\ slept)
           /\ handle[ws] = "closed"
           /\ sentSinceRecv \in {<< Pong >>, << Pong, KeepSeat >>})
  /\ (wsAvailable /\ mainPc \in {"returned", "raised"} => result = dlOutcome)
C16_Witness ==
  /\ lastRecv = PingFrame
  /\ ret = "raised"
  /\ wsPc = "loop"
  /\ sentSinceRecv = << Pong, KeepSeat >>
  /\ mainPc = "returned"

\* C17: an empty frame, and an object whose type is not ping, disconnect or
\* error (or that has no type), changes nothing: nothing is sent, the
\* handle stays open and the loop is at the next receive.
IgnoredFrames == {EmptyFrame, EmptyObjFrame, OtherTypeFrame, NoTypeFrame}
C17_UnknownIgnored ==
  /\ [](lastRecv \in IgnoredFrames =>
          /\ wsPc = "recv"
          /\ handle[ws] = "open"
          /\ sentSinceRecv = << >>
          /\ ret = None)
  /\ [][(wsPc = "recv" /\ lastRecv' \in IgnoredFrames) =>
          UNCHANGED << wsPc, handle, sent, reconnect, ret, message, attempts,
                       opened, ws, slept >>]_vars
C17_Witness ==
  /\ lastRecv = NoTypeFrame
  /\ wsPc = "recv"
  /\ ws = 1
  /\ Len(sent[1]) = 3

\* C18: dl.download gets info_dict with only the protocol replaced by
\* live_ffmpeg, and no step ever writes the caller's info_dict.
C18_CopyOnlyProtocol ==
  /\ [](dlCalls >= 1 =>
          /\ dlArg.protocol = "live_ffmpeg"
          /\ dlArg.live_quality = info_dict.live_quality
          /\ dlArg.live_latency = info_dict.live_latency
          /\ DOMAIN dlArg = DOMAIN info_dict)
  /\ [](info_dict.protocol \in Protocols)
  /\ [][info_dict' = info_dict]_vars
C18_Witness ==
  /\ dlCalls = 1
  /\ dlArg.protocol = "live_ffmpeg"
  /\ info_dict.protocol = "niconico_live"
  /\ info_dict.live_quality = "low"
  /\ wsPc = "stopped"

\* the messages of the steps C20 names
StepFailures ==
  { "unable to remove the old version", "unable to fetch updates",
    "unable to download latest version", "unable to write the new version",
    "unable to move current version", "unable to overwrite current version" }
Reported == {errors[i] : i \in DOMAIN errors}
\* a digest is published and the download's digest differs from it
Mismatch ==
  /\ expected_sum # None
  /\ newcontent # None
  /\ Sha256(newcontent) # expected_sum

\* C19: with a published digest that the download does not match, the
\* download never becomes the executable, and when run_update has finished
\* the executable's path holds the original content and run_update has not
\* returned True.
C19_MismatchKeepsExe ==
  Mismatch =>
    /\ fs.exe # newcontent
    /\ (updPc = "done" => fs.exe = Original /\ updResult # "True")

\* C20: when run_update returns after one of its steps failed, the
\* executable's path holds the original content; whenever run_update returns
\* there is an executable at that path, and it is the download only if both
\* renames succeeded.
C20_FailureKeepsExe ==
  /\ (updResult \in {"None", "True"} /\ Reported \cap StepFailures # {} =>
        fs.exe = Original)
  /\ (updResult \in {"None", "True"} => fs.exe \in {Original, newcontent})
  /\ (fs.exe \notin {Original, Absent} => renames = 2 /\ fs.exe = newcontent)
  /\ (updResult = "True" => renames = 2 /\ fs.exe = newcontent)
C20_Witness ==
  /\ updResult = "None"
  /\ "unable to overwrite current version" \in Reported
  /\ renames = 1
  /\ fs = [exe |-> Original, old |-> Absent, new |-> "release"]

====
